---- MODULE Spec2Model ----
(***************************************************************************)
(* A model of the migration planning and application engine of             *)
(* octacian/migrate: Instance.Version, Instance.Goto and Instance.Latest   *)
(* (instance.go), run against a transactional database and the metadb      *)
(* ledger that stores the key "migrateVersion".                             *)
(*                                                                         *)
(* The database is the set of parts <<version, index>> whose up-body is in  *)
(* effect: a successful Exec of an up-body adds the part, a successful      *)
(* Exec of a down-body removes it.  A transaction works on a copy of the    *)
(* database that replaces it on a successful Commit and is dropped on       *)
(* Rollback or on a failed Commit.  Part indices are 1-based here (Go's     *)
(* are 0-based).                                                            *)
(***************************************************************************)
EXTENDS Integers, Sequences, FiniteSets, TLC

\* Bounds of the explored instances and requests.
MaxVersion == 3
MaxParts == 2
MaxBelow == 1

VersionKey == "migrateVersion"

----------------------------------------------------------------------------
\* Errors returned by Goto and Latest: the Go type and the message format.

ErrNil == [type |-> "nil", msg |-> ""]

ErrNoVersion == [type |-> "ErrNoVersion", msg |-> "Instance.Goto: migration for version does not exist"]

ErrNoMigrationsGoto == [type |-> "ErrNoMigrations", msg |-> "Instance.Goto: no migrations to apply, database is already on version"]

ErrNoMigrationsLatest == [type |-> "ErrNoMigrations", msg |-> "Instance.Latest: no migrations to apply, database version is the latest"]

ErrBegin == [type |-> "error", msg |-> "Instance.Goto: got error while starting a transaction"]

ErrApply == [type |-> "error", msg |-> "Instance.Goto: got error while applying migrations"]

ErrCommit == [type |-> "error", msg |-> "Instance.Goto: got error while committing transaction"]

ErrSet == [type |-> "error", msg |-> "Instance.Goto: got error while updating migrate version"]

----------------------------------------------------------------------------
\* Parts and Migrations as NewPart and NewMigration build them.

\* A Part: its name and its two SQL bodies, both non-empty.
Part(v, i) == [Name |-> <<v, i>>, Up |-> <<"up", v, i>>, Down |-> <<"down", v, i>>]

\* A Migration: its version and its Parts in stored order.
Migration(v, n) == [Version |-> v, Parts |-> [i \in 1..n |-> Part(v, i)]]

\* The migration maps NewInstance accepts: keys 1..max without a gap, every
\* Migration stored under its own version and holding at least one Part
\* (here every Migration of a map holds the same number of Parts).
Instances ==
    { [v \in 1..max |-> Migration(v, n)] : max \in 1..MaxVersion, n \in 1..MaxParts }

\* Every SQL body of a migration map.
Bodies(migs) ==
    UNION { { migs[v].Parts[i].Up : i \in DOMAIN migs[v].Parts }
            \cup { migs[v].Parts[i].Down : i \in DOMAIN migs[v].Parts } : v \in DOMAIN migs }

\* The bodies of one Migration with the part indices in F, in both directions.
BodiesOf(migs, v, F) ==
    UNION { {migs[v].Parts[i].Up, migs[v].Parts[i].Down} : i \in F \cap DOMAIN migs[v].Parts }

----------------------------------------------------------------------------
\* The collaborators.

\* metadb: the ledger is a map from key to value; Get fails with ErrNoEntry
\* for a key that was never Set.
NoEntries == [k \in {} |-> 0]

MetaSet(m, key, value) == [k \in DOMAIN m \cup {key} |-> IF k = key THEN value ELSE m[k]]

ErrNoEntry == [type |-> "*metadb.ErrNoEntry", msg |-> "no entry"]

ErrGet == [type |-> "error", msg |-> "metadb: Get failed"]

\* metadb.Get: the value under key, ErrNoEntry when there is none, or another
\* error when the read itself fails.
Get(m, key, fails) ==
    IF fails THEN [res |-> 0, err |-> ErrGet]
    ELSE IF key \notin DOMAIN m THEN [res |-> 0, err |-> ErrNoEntry]
    ELSE [res |-> m[key], err |-> ErrNil]

\* sql.Tx.Exec on the transaction's copy of the database.
Exec(tx, body) ==
    IF body[1] = "up" THEN tx \cup {<<body[2], body[3]>>} ELSE tx \ {<<body[2], body[3]>>}

\* What the collaborators do during one call: whether Begin fails, the bodies
\* whose Exec fails, whether Commit fails, whether the ledger Set fails.
NoFault == [begin |-> FALSE, exec |-> {}, commit |-> FALSE, set |-> FALSE]

\* The failing bodies: some parts of one Migration, or every body.
FailingBodies(migs) ==
    {Bodies(migs)}
    \cup { BodiesOf(migs, v, F) : v \in DOMAIN migs, F \in (SUBSET (1..MaxParts)) \ {{}} }

\* A call returns at the first collaborator call that fails (Exec failures
\* within one Migration apart), so the calls are explored with one kind of
\* fault each: none, Begin, Exec of some bodies, Commit, or Set.
Envs(migs) ==
    {NoFault, [NoFault EXCEPT !.begin = TRUE], [NoFault EXCEPT !.commit = TRUE],
     [NoFault EXCEPT !.set = TRUE]}
    \cup { [NoFault EXCEPT !.exec = F] : F \in FailingBodies(migs) \ {{}} }

----------------------------------------------------------------------------
\* Instance.Version

\* The value Version returns when the ledger can be read.
Version(m) == IF VersionKey \in DOMAIN m THEN m[VersionKey] ELSE 0

\* (Mutant: every error of the read counts as a missing entry.)
IsNoEntryAny(e) == TRUE

\* if _, ok := err.(*metadb.ErrNoEntry); ok
IsNoEntry(e) == e.type = "*metadb.ErrNoEntry"

\* Version with the outcome of the read: the value returned, or a panic and
\* no value.  read is the error Get returned.
VersionRead(m, fails) ==
    LET got == Get(m, VersionKey, fails) IN
    IF got.err # ErrNil
    THEN IF IsNoEntry(got.err)
         THEN [read |-> got.err, panic |-> FALSE, value |-> 0]
         ELSE [read |-> got.err, panic |-> TRUE]
    ELSE [read |-> got.err, panic |-> FALSE, value |-> got.res]

----------------------------------------------------------------------------
\* Instance.Goto: planning.

\* addToTodo: the lookup of one version in the migration map.
HasVersion(migs, i) == i \in DOMAIN migs

\* The loop conditions of the two planning loops.
\* (Mutant: the upward loop stops one version short of the target.)
UpContinuesShort(i, version) == i < version

UpContinues(i, version) == i <= version

\* (Mutant: the downward loop runs on to the target version itself.)
DownContinuesThrough(i, version) == i >= version

DownContinues(i, version) == i > version

\* (Mutant: a version missing from the map is skipped instead of reported.)
RECURSIVE PlanUpSkipping(_, _, _, _)
PlanUpSkipping(migs, i, version, todo) ==
    IF ~UpContinues(i, version) THEN [err |-> ErrNil, todo |-> todo]
    ELSE IF ~HasVersion(migs, i) THEN PlanUpSkipping(migs, i + 1, version, todo)
    ELSE PlanUpSkipping(migs, i + 1, version, Append(todo, migs[i]))

\* for i := currentVersion + 1; i <= version; i++ { addToTodo(i) }
RECURSIVE PlanUp(_, _, _, _)
PlanUp(migs, i, version, todo) ==
    IF ~UpContinues(i, version) THEN [err |-> ErrNil, todo |-> todo]
    ELSE IF ~HasVersion(migs, i) THEN [err |-> ErrNoVersion, todo |-> todo]
    ELSE PlanUp(migs, i + 1, version, Append(todo, migs[i]))

\* for i := currentVersion - 1; i > version; i-- { addToTodo(i) }
RECURSIVE PlanDown(_, _, _, _)
PlanDown(migs, i, version, todo) ==
    IF ~DownContinues(i, version) THEN [err |-> ErrNil, todo |-> todo]
    ELSE IF ~HasVersion(migs, i) THEN [err |-> ErrNoVersion, todo |-> todo]
    ELSE PlanDown(migs, i - 1, version, Append(todo, migs[i]))

\* (Mutant: a request for the current version takes the downward branch.)
DirectionWithoutNone(version, currentVersion) ==
    IF version > currentVersion THEN "up" ELSE "down"

\* The three-way branch on the requested and the current version.
Direction(version, currentVersion) ==
    IF version > currentVersion THEN "up"
    ELSE IF version < currentVersion THEN "down"
    ELSE "none"

\* The plan of a call: the error of the planning phase, the step list, the
\* direction and the jump.
Plan(migs, currentVersion, version) ==
    LET branch == Direction(version, currentVersion) IN
    IF branch = "up" THEN
        LET p == PlanUp(migs, currentVersion + 1, version, <<>>) IN
        [err |-> p.err, todo |-> p.todo, direction |-> "up", jump |-> version - currentVersion]
    ELSE IF branch = "down" THEN
        LET p == PlanDown(migs, currentVersion - 1, version, <<>>) IN
        [err |-> p.err, todo |-> p.todo, direction |-> "down", jump |-> currentVersion - version]
    ELSE [err |-> ErrNoMigrationsGoto, todo |-> <<>>, direction |-> "up", jump |-> 1]

----------------------------------------------------------------------------
\* Instance.Goto: execution.

\* The body of a Part that the direction selects.
BodyFor(part, direction) == IF direction = "up" THEN part.Up ELSE part.Down

\* (Mutant: the loop over the Parts ends at the first Part that fails.)
RECURSIVE ApplyPartsStopping(_, _, _, _, _)
ApplyPartsStopping(parts, direction, env, key, st) ==
    IF key > Len(parts) THEN st
    ELSE
        LET part == parts[key]
            body == BodyFor(part, direction)
        IN  IF body \in env.exec
            THEN [st EXCEPT !.calls = Append(@, <<"Exec", body, FALSE>>),
                            !.out = Append(@, <<"Failed", part.Name>>),
                            !.failed = Append(@, key)]
            ELSE ApplyPartsStopping(parts, direction, env, key + 1,
                    [st EXCEPT !.tx = Exec(@, body),
                               !.calls = Append(@, <<"Exec", body, TRUE>>),
                               !.out = Append(@, <<"Applied", part.Name>>),
                               !.applied = Append(@, key)])

\* (Mutant: going down, the Parts are taken last to first.)
RECURSIVE ApplyPartsReversedDown(_, _, _, _, _)
ApplyPartsReversedDown(parts, direction, env, key, st) ==
    IF key > Len(parts) THEN st
    ELSE
        LET at == IF direction = "down" THEN Len(parts) + 1 - key ELSE key
            part == parts[at]
            body == BodyFor(part, direction)
        IN  IF body \in env.exec
            THEN ApplyPartsReversedDown(parts, direction, env, key + 1,
                    [st EXCEPT !.calls = Append(@, <<"Exec", body, FALSE>>),
                               !.out = Append(@, <<"Failed", part.Name>>),
                               !.failed = Append(@, at)])
            ELSE ApplyPartsReversedDown(parts, direction, env, key + 1,
                    [st EXCEPT !.tx = Exec(@, body),
                               !.calls = Append(@, <<"Exec", body, TRUE>>),
                               !.out = Append(@, <<"Applied", part.Name>>),
                               !.applied = Append(@, at)])

\* The inner loop: every Part of one Migration in stored order.  st holds the
\* transaction's database copy, the collaborator calls and the output so far,
\* and the applied and failed part indices of this Migration.
RECURSIVE ApplyParts(_, _, _, _, _)
ApplyParts(parts, direction, env, key, st) ==
    IF key > Len(parts) THEN st
    ELSE
        LET part == parts[key]
            body == BodyFor(part, direction)
        IN  IF body \in env.exec
            THEN ApplyParts(parts, direction, env, key + 1,
                    [st EXCEPT !.calls = Append(@, <<"Exec", body, FALSE>>),
                               !.out = Append(@, <<"Failed", part.Name>>),
                               !.failed = Append(@, key)])
            ELSE ApplyParts(parts, direction, env, key + 1,
                    [st EXCEPT !.tx = Exec(@, body),
                               !.calls = Append(@, <<"Exec", body, TRUE>>),
                               !.out = Append(@, <<"Applied", part.Name>>),
                               !.applied = Append(@, key)])

\* (Mutant: a single failed Part goes unnoticed.)
MigrationFailedTwice(failed) == Len(failed) > 1

\* if len(failed) > 0: the Migration did not apply.
MigrationFailed(failed) == Len(failed) > 0

\* (Mutant: the transaction is left open when a Migration did not apply.)
RECURSIVE ApplyTodoNoRollback(_, _, _, _, _, _)
ApplyTodoNoRollback(todo, direction, currentVersion, env, key, st) ==
    IF key > Len(todo) THEN [st EXCEPT !.err = ErrNil]
    ELSE
        LET migration == todo[key]
            begun == [st EXCEPT !.out = Append(@, <<"Beginning", direction,
                                                     currentVersion + (key - 1), migration.Version>>),
                                !.applied = <<>>, !.failed = <<>>]
            done == ApplyParts(migration.Parts, direction, env, 1, begun)
        IN  IF MigrationFailed(done.failed)
            THEN [done EXCEPT !.out = Append(@, <<"Reverting", Len(done.failed), Len(done.applied)>>),
                              !.err = ErrApply]
            ELSE ApplyTodoNoRollback(todo, direction, currentVersion, env, key + 1,
                    [done EXCEPT !.out = Append(@, <<"Successfully applied parts", Len(done.applied)>>)])

\* The outer loop over the step list; key is the 1-based position in todo
\* (the Go index plus one).  It stops after the first Migration with a failed
\* Part, rolling the transaction back.
RECURSIVE ApplyTodo(_, _, _, _, _, _)
ApplyTodo(todo, direction, currentVersion, env, key, st) ==
    IF key > Len(todo) THEN [st EXCEPT !.err = ErrNil]
    ELSE
        LET migration == todo[key]
            begun == [st EXCEPT !.out = Append(@, <<"Beginning", direction,
                                                     currentVersion + (key - 1), migration.Version>>),
                                !.applied = <<>>, !.failed = <<>>]
            done == ApplyParts(migration.Parts, direction, env, 1, begun)
        IN  IF MigrationFailed(done.failed)
            THEN [done EXCEPT !.out = Append(@, <<"Reverting", Len(done.failed), Len(done.applied)>>),
                              !.calls = Append(@, <<"Rollback">>),
                              !.err = ErrApply]
            ELSE ApplyTodo(todo, direction, currentVersion, env, key + 1,
                    [done EXCEPT !.out = Append(@, <<"Successfully applied parts", Len(done.applied)>>)])

\* The outcome of a call: the returned error, the database and the ledger
\* after it, and the record of the call (the version read, the plan, the
\* collaborator calls in order, the lines written to Output).
Outcome(err, database, m, currentVersion, version, plan, calls, out) ==
    [err |-> err, db |-> database, meta |-> m, currentVersion |-> currentVersion,
     version |-> version, todo |-> [k \in DOMAIN plan.todo |-> plan.todo[k].Version],
     direction |-> plan.direction, calls |-> calls, out |-> out]

\* (Mutant: the ledger is written although Commit failed.)
FinishDespiteCommit(run, database, m, currentVersion, version, plan, env) ==
    IF env.set
    THEN Outcome(ErrSet, database, m, currentVersion, version, plan,
                 run.calls \o <<<<"Commit", ~env.commit>>, <<"Set", VersionKey, version, FALSE>>>>, run.out)
    ELSE Outcome(IF env.commit THEN ErrCommit ELSE ErrNil,
                 IF env.commit THEN database ELSE run.tx,
                 MetaSet(m, VersionKey, version), currentVersion, version, plan,
                 run.calls \o <<<<"Commit", ~env.commit>>, <<"Set", VersionKey, version, TRUE>>>>,
                 run.out)

\* (Mutant: a failed ledger write is reported as a failed Commit.)
FinishOneError(run, database, m, currentVersion, version, plan, env) ==
    IF env.commit
    THEN Outcome(ErrCommit, database, m, currentVersion, version, plan,
                 Append(run.calls, <<"Commit", FALSE>>), run.out)
    ELSE IF env.set
    THEN Outcome(ErrCommit, run.tx, m, currentVersion, version, plan,
                 run.calls \o <<<<"Commit", TRUE>>, <<"Set", VersionKey, version, FALSE>>>>, run.out)
    ELSE Outcome(ErrNil, run.tx, MetaSet(m, VersionKey, version), currentVersion, version, plan,
                 run.calls \o <<<<"Commit", TRUE>>, <<"Set", VersionKey, version, TRUE>>>>,
                 Append(run.out, <<"Successfully applied migrations">>))

\* (Mutant: the ledger is written before the Commit.)
FinishSetFirst(run, database, m, currentVersion, version, plan, env) ==
    IF env.set
    THEN Outcome(ErrSet, database, m, currentVersion, version, plan,
                 Append(run.calls, <<"Set", VersionKey, version, FALSE>>), run.out)
    ELSE IF env.commit
    THEN Outcome(ErrCommit, database, MetaSet(m, VersionKey, version), currentVersion, version, plan,
                 run.calls \o <<<<"Set", VersionKey, version, TRUE>>, <<"Commit", FALSE>>>>, run.out)
    ELSE Outcome(ErrNil, run.tx, MetaSet(m, VersionKey, version), currentVersion, version, plan,
                 run.calls \o <<<<"Set", VersionKey, version, TRUE>>, <<"Commit", TRUE>>>>,
                 Append(run.out, <<"Successfully applied migrations">>))

\* The end of Goto once every Migration of the step list applied: Commit,
\* then the ledger write, then the closing line.
Finish(run, database, m, currentVersion, version, plan, env) ==
    IF env.commit
    THEN Outcome(ErrCommit, database, m, currentVersion, version, plan,
                 Append(run.calls, <<"Commit", FALSE>>), run.out)
    ELSE IF env.set
    THEN Outcome(ErrSet, run.tx, m, currentVersion, version, plan,
                 run.calls \o <<<<"Commit", TRUE>>, <<"Set", VersionKey, version, FALSE>>>>, run.out)
    ELSE Outcome(ErrNil, run.tx, MetaSet(m, VersionKey, version), currentVersion, version, plan,
                 run.calls \o <<<<"Commit", TRUE>>, <<"Set", VersionKey, version, TRUE>>>>,
                 Append(run.out, <<"Successfully applied migrations">>))

Goto(migs, database, m, version, env) ==
    LET currentVersion == Version(m)
        plan == Plan(migs, currentVersion, version)
        prepared == IF plan.jump > 1 THEN <<<<"Preparing", plan.jump>>>> ELSE <<>>
    IN
    IF plan.err # ErrNil
    THEN Outcome(plan.err, database, m, currentVersion, version, plan, <<>>, <<>>)
    ELSE IF env.begin
    THEN Outcome(ErrBegin, database, m, currentVersion, version, plan,
                 <<<<"Begin", FALSE>>>>, prepared)
    ELSE
        LET run == ApplyTodo(plan.todo, plan.direction, currentVersion, env, 1,
                     [tx |-> database, calls |-> <<<<"Begin", TRUE>>>>, out |-> prepared,
                      applied |-> <<>>, failed |-> <<>>, err |-> ErrNil])
        IN
        IF run.err # ErrNil
        THEN Outcome(run.err, database, m, currentVersion, version, plan, run.calls, run.out)
        ELSE Finish(run, database, m, currentVersion, version, plan, env)

----------------------------------------------------------------------------
\* Instance.Latest

\* (Mutant: the comparison of the loop is reversed.)
RECURSIVE HighestVersionReversed(_, _, _)
HighestVersionReversed(migs, keys, latestVersion) ==
    IF keys = {} THEN latestVersion
    ELSE LET k == CHOOSE x \in keys : TRUE IN
         HighestVersionReversed(migs, keys \ {k},
            IF migs[k].Version < latestVersion THEN migs[k].Version ELSE latestVersion)

\* The loop that finds the highest version of the map, started at 0.
RECURSIVE HighestVersion(_, _, _)
HighestVersion(migs, keys, latestVersion) ==
    IF keys = {} THEN latestVersion
    ELSE LET k == CHOOSE x \in keys : TRUE IN
         HighestVersion(migs, keys \ {k},
            IF migs[k].Version > latestVersion THEN migs[k].Version ELSE latestVersion)

\* (Mutant: the latest version itself is not recognised as latest.)
AtLatestStrict(latestVersion, currentVersion) == latestVersion < currentVersion

\* if latestVersion <= currentVersion: nothing to apply.
AtLatest(latestVersion, currentVersion) == latestVersion <= currentVersion

Latest(migs, database, m, env) ==
    LET currentVersion == Version(m)
        latestVersion == HighestVersion(migs, DOMAIN migs, 0)
    IN
    IF AtLatest(latestVersion, currentVersion)
    THEN Outcome(ErrNoMigrationsLatest, database, m, currentVersion, latestVersion,
                 [todo |-> <<>>, direction |-> "up"], <<>>, <<>>)
    ELSE Goto(migs, database, m, latestVersion, env)

----------------------------------------------------------------------------
\* NewPart: the parser of one part file.
\*
\* A line is a sequence of tokens: " " is one whitespace character, "--" the
\* SQL comment prefix, "@migrate/up" and "@migrate/down" the tags, any other
\* token a piece of SQL text.  A body is the concatenation of lines.

ErrOpen == [type |-> "*os.PathError", msg |-> "open"]

ErrNoMarker == [type |-> "error", msg |-> "Migration.AddFile: expected part file to begin with a comment denoting an upward or downward migration"]

ErrNoUp == [type |-> "error", msg |-> "Migration.AddFile: file contains no upward migration data"]

ErrNoDown == [type |-> "error", msg |-> "Migration.AddFile: file contains no downward migration data"]

\* strings.TrimSpace: the line without its leading and trailing whitespace.
RECURSIVE TrimLeft(_)
TrimLeft(line) ==
    IF line # <<>> /\ Head(line) = " " THEN TrimLeft(Tail(line)) ELSE line

RECURSIVE TrimRight(_)
TrimRight(line) ==
    IF line # <<>> /\ line[Len(line)] = " " THEN TrimRight(SubSeq(line, 1, Len(line) - 1)) ELSE line

TrimSpace(line) == TrimRight(TrimLeft(line))

\* (Mutant: the whitespace between the comment prefix and the tag is required.)
FindStringSubmatchSpaced(text) ==
    IF /\ Len(text) = 3
       /\ text[1] = "--"
       /\ text[2] = " "
       /\ text[3] \in {"@migrate/up", "@migrate/down"}
    THEN <<text, IF text[3] = "@migrate/up" THEN "up" ELSE "down">>
    ELSE <<>>

\* regexPartDir.FindStringSubmatch for ^--\s?@migrate/(up|down)$ : the match
\* and its group, or nothing.
FindStringSubmatch(text) ==
    IF /\ Len(text) \in {2, 3}
       /\ text[1] = "--"
       /\ (Len(text) = 3 => text[2] = " ")
       /\ text[Len(text)] \in {"@migrate/up", "@migrate/down"}
    THEN <<text, IF text[Len(text)] = "@migrate/up" THEN "up" ELSE "down">>
    ELSE <<>>

\* (Mutant: a tag starts its direction afresh instead of adding to it.)
AccumulateReset(sql, text) == text

\* upSQL += text
Accumulate(sql, text) == sql \o text

\* The scanner loop over the lines from position k on; which is -1 before the
\* first tag, 0 under an up tag and 1 under a down tag.
RECURSIVE ScanLines(_, _, _, _, _)
ScanLines(lines, k, which, upSQL, downSQL) ==
    IF k > Len(lines) THEN [err |-> ErrNil, which |-> which, upSQL |-> upSQL, downSQL |-> downSQL]
    ELSE
        LET text == TrimSpace(lines[k])
            matches == FindStringSubmatch(text)
        IN  IF Len(matches) > 1
            THEN ScanLines(lines, k + 1,
                           IF matches[2] = "up" THEN 0 ELSE IF matches[2] = "down" THEN 1 ELSE which,
                           upSQL, downSQL)
            ELSE IF text = <<>>
            THEN ScanLines(lines, k + 1, which, upSQL, downSQL)
            ELSE IF which = 0
            THEN ScanLines(lines, k + 1, which, Accumulate(upSQL, text), downSQL)
            ELSE IF which = 1
            THEN ScanLines(lines, k + 1, which, upSQL, Accumulate(downSQL, text))
            ELSE [err |-> ErrNoMarker, which |-> which, upSQL |-> upSQL, downSQL |-> downSQL]

\* (Mutant: the checks for an empty body are missing.)
NoData(sql) == FALSE

\* upSQL == "" (and downSQL == "")
IsEmptyBody(sql) == sql = <<>>

\* (Mutant: a file without any tag is not caught after the scan.)
NoMarkerSeenNever(which) == FALSE

\* which == -1 after the scan
NoMarkerSeen(which) == which = -1

NoPart == [Name |-> "", Up |-> <<>>, Down |-> <<>>]

\* file is what lies at the path: its name, whether it can be opened, and its
\* lines.  The result is the Part, or the error with no Part.
NewPart(file) ==
    IF ~file.readable THEN [part |-> NoPart, err |-> ErrOpen]
    ELSE
        LET scan == ScanLines(file.lines, 1, -1, <<>>, <<>>) IN
        IF scan.err # ErrNil THEN [part |-> NoPart, err |-> scan.err]
        ELSE IF NoMarkerSeen(scan.which) THEN [part |-> NoPart, err |-> ErrNoMarker]
        ELSE IF IsEmptyBody(scan.upSQL) THEN [part |-> NoPart, err |-> ErrNoUp]
        ELSE IF IsEmptyBody(scan.downSQL) THEN [part |-> NoPart, err |-> ErrNoDown]
        ELSE [part |-> [Name |-> file.name, Up |-> scan.upSQL, Down |-> scan.downSQL],
              err |-> ErrNil]

----------------------------------------------------------------------------
\* NewMigration: one migration directory.
\*
\* A directory name is a sequence of characters.  A directory is its name,
\* whether it can be read, and its entries in the order ReadDir lists them;
\* an entry is its extension, whether it is a directory, and the part file.

ErrBadName == [type |-> "error", msg |-> "NewMigration: expected migration directory name to be formatted as 'version_<number>'"]

ErrSyntax == [type |-> "*strconv.NumError", msg |-> "strconv.Atoi: invalid syntax"]

ErrZero == [type |-> "error", msg |-> "NewMigration: got disallowed migration version '0'"]

ErrReadDir == [type |-> "*os.PathError", msg |-> "open"]

ErrNoParts == [type |-> "error", msg |-> "NewMigration: no migration parts found"]

VersionPrefix == <<"v", "e", "r", "s", "i", "o", "n", "_">>

DigitChars == {"0", "1", "2", "3", "4", "5", "6", "7", "8", "9"}

DigitValue(ch) ==
    CASE ch = "0" -> 0 [] ch = "1" -> 1 [] ch = "2" -> 2 [] ch = "3" -> 3 [] ch = "4" -> 4
      [] ch = "5" -> 5 [] ch = "6" -> 6 [] ch = "7" -> 7 [] ch = "8" -> 8 [] ch = "9" -> 9

\* The value of a sequence of digits, base 10.
RECURSIVE Decimal(_, _)
Decimal(digits, acc) ==
    IF digits = <<>> THEN acc ELSE Decimal(Tail(digits), acc * 10 + DigitValue(Head(digits)))

\* strconv.Atoi: an optional sign, then one or more digits.
Atoi(str) ==
    LET signed == str # <<>> /\ Head(str) \in {"+", "-"}
        digits == IF signed THEN Tail(str) ELSE str
    IN  IF digits = <<>> \/ \E k \in 1..Len(digits) : digits[k] \notin DigitChars
        THEN [n |-> 0, err |-> ErrSyntax]
        ELSE [n |-> IF signed /\ Head(str) = "-" THEN 0 - Decimal(digits, 0) ELSE Decimal(digits, 0),
              err |-> ErrNil]

\* The name check and the version number of a directory name.
ParseName(name) ==
    IF Len(name) < 9 \/ SubSeq(name, 1, 8) # VersionPrefix
    THEN [version |-> 0, err |-> ErrBadName]
    ELSE LET parsed == Atoi(SubSeq(name, 9, Len(name))) IN
         [version |-> parsed.n, err |-> parsed.err]

\* (Mutant: no version is reserved.)
IsReservedNever(version) == FALSE

\* if version == 0
IsReserved(version) == version = 0

\* Whether an entry of the directory is taken as a part file.
IsPartFile(entry) == ~entry.isDir /\ entry.ext = ".sql"

\* The loop over the entries from position k on; it stops at the first part
\* file NewPart rejects.
RECURSIVE ReadParts(_, _, _)
ReadParts(files, k, parts) ==
    IF k > Len(files) THEN [parts |-> parts, err |-> ErrNil]
    ELSE IF IsPartFile(files[k])
    THEN LET made == NewPart(files[k].file) IN
         IF made.err # ErrNil THEN [parts |-> parts, err |-> made.err]
         ELSE ReadParts(files, k + 1, Append(parts, made.part))
    ELSE ReadParts(files, k + 1, parts)

NoMigration == [Name |-> <<>>, Version |-> 0, Parts |-> <<>>]

\* (Mutant: an empty Migration is returned as it is.)
HasNoPartsNever(parts) == FALSE

\* if len(migration.Parts) == 0
HasNoParts(parts) == Len(parts) = 0

\* The part of NewMigration after the checks of the name: reading the
\* directory and its part files.
ReadMigration(dir, version) ==
    IF ~dir.readable THEN [migration |-> NoMigration, err |-> ErrReadDir]
    ELSE LET read == ReadParts(dir.files, 1, <<>>) IN
         IF read.err # ErrNil THEN [migration |-> NoMigration, err |-> read.err]
         ELSE IF HasNoParts(read.parts) THEN [migration |-> NoMigration, err |-> ErrNoParts]
         ELSE [migration |-> [Name |-> dir.name, Version |-> version, Parts |-> read.parts],
               err |-> ErrNil]

\* (Mutant: version 0 is rejected only after the directory was read.)
NewMigrationReadFirst(dir) ==
    LET named == ParseName(dir.name)
        made == ReadMigration(dir, named.version)
    IN  IF named.err # ErrNil THEN [migration |-> NoMigration, err |-> named.err]
        ELSE IF made.err # ErrNil THEN made
        ELSE IF IsReserved(named.version) THEN [migration |-> NoMigration, err |-> ErrZero]
        ELSE made

NewMigration(dir) ==
    LET named == ParseName(dir.name) IN
    IF named.err # ErrNil THEN [migration |-> NoMigration, err |-> named.err]
    ELSE IF IsReserved(named.version) THEN [migration |-> NoMigration, err |-> ErrZero]
    ELSE ReadMigration(dir, named.version)

----------------------------------------------------------------------------
\* NewInstance: the root directory of the migrations.
\*
\* The root is the database handle, whether metadb can be set up on it,
\* whether the root can be read, and its entries in the order ReadDir lists
\* them; an entry is whether it is a directory, and the directory.

ErrNilDB == [type |-> "error", msg |-> "NewInstance: got nil database handle"]

ErrMeta == [type |-> "error", msg |-> "NewInstance: got error while creating metadb instance"]

ErrNoneFound == [type |-> "error", msg |-> "NewInstance: no migrations found"]

\* (Mutant: the gap is reported between the version before the offending one
\* and the offending one.)
ErrGapBefore(lastVersion, key) ==
    [type |-> "error", msg |-> "NewInstance: found gap between migration version",
     from |-> key - 1, to |-> key]

ErrGap(lastVersion, key) ==
    [type |-> "error", msg |-> "NewInstance: found gap between migration version",
     from |-> lastVersion, to |-> key]

\* (Mutant: every entry of the root is taken for a migration directory.)
RECURSIVE ReadMigrationsAll(_, _, _)
ReadMigrationsAll(entries, k, migs) ==
    IF k > Len(entries) THEN [migrations |-> migs, err |-> ErrNil]
    ELSE LET made == NewMigration(entries[k].dir) IN
         IF made.err # ErrNil THEN [migrations |-> migs, err |-> made.err]
         ELSE ReadMigrationsAll(entries, k + 1,
                [v \in DOMAIN migs \cup {made.migration.Version} |->
                    IF v = made.migration.Version THEN made.migration ELSE migs[v]])

\* The loop over the entries of the root from position k on.
RECURSIVE ReadMigrations(_, _, _)
ReadMigrations(entries, k, migs) ==
    IF k > Len(entries) THEN [migrations |-> migs, err |-> ErrNil]
    ELSE IF ~entries[k].isDir THEN ReadMigrations(entries, k + 1, migs)
    ELSE LET made == NewMigration(entries[k].dir) IN
         IF made.err # ErrNil THEN [migrations |-> migs, err |-> made.err]
         ELSE ReadMigrations(entries, k + 1,
                [v \in DOMAIN migs \cup {made.migration.Version} |->
                    IF v = made.migration.Version THEN made.migration ELSE migs[v]])

\* sort.Ints on the keys of the map.
SortInts(keys) ==
    [k \in 1..Cardinality(keys) |->
        CHOOSE x \in keys : Cardinality({y \in keys : y < x}) = k - 1]

\* (Mutant: only a step of more than one version counts as a gap.)
IsGapAbove(key, lastVersion) == key > lastVersion + 1

\* if key != lastVersion+1
IsGap(key, lastVersion) == key # lastVersion + 1

\* The loop over the sorted keys from position k on.
RECURSIVE CheckGaps(_, _, _)
CheckGaps(keys, k, lastVersion) ==
    IF k > Len(keys) THEN ErrNil
    ELSE IF IsGap(keys[k], lastVersion) THEN ErrGap(lastVersion, keys[k])
    ELSE CheckGaps(keys, k + 1, lastVersion + 1)

NoMigrations == [v \in {} |-> NoMigration]

NewInstance(root) ==
    IF root.db = "nil" THEN [migrations |-> NoMigrations, err |-> ErrNilDB]
    ELSE IF ~root.meta THEN [migrations |-> NoMigrations, err |-> ErrMeta]
    ELSE IF ~root.readable THEN [migrations |-> NoMigrations, err |-> ErrReadDir]
    ELSE
        LET read == ReadMigrations(root.entries, 1, NoMigrations) IN
        IF read.err # ErrNil THEN [migrations |-> NoMigrations, err |-> read.err]
        ELSE IF Cardinality(DOMAIN read.migrations) = 0
        THEN [migrations |-> NoMigrations, err |-> ErrNoneFound]
        ELSE LET gap == CheckGaps(SortInts(DOMAIN read.migrations), 1, 0) IN
             IF gap # ErrNil THEN [migrations |-> NoMigrations, err |-> gap]
             ELSE [migrations |-> read.migrations, err |-> ErrNil]

----------------------------------------------------------------------------
\* The state: the Instance's migration map, the database, the ledger, and the
\* record of the last call.

VARIABLES migrations, db, meta, op, version, currentVersion, todo, direction, err, calls, Output,
          path, ret, running

vars == <<migrations, db, meta, op, version, currentVersion, todo, direction, err, calls, Output,
          path, ret, running>>

\* path is what lies at the path handed to a constructor (NewPart,
\* NewMigration, NewInstance) and ret is what the constructor or Version
\* returned; Goto and Latest return their error, which is err.
NoPath == <<>>

NoReturn == <<>>

\* running holds the calls of Goto and Latest in progress, by caller, where
\* callers run side by side; with one caller a call is one step and nothing
\* is in progress between steps.
NoCallers == <<>>

\* The versions a caller asks for: below zero, every version of the largest
\* map, and one above it.
Targets == (0 - MaxBelow)..(MaxVersion + 1)

\* A fresh database and ledger under an Instance NewInstance returned.
Init ==
    /\ migrations \in Instances
    /\ db = {}
    /\ meta = NoEntries
    /\ op = "NewInstance"
    /\ version = 0
    /\ currentVersion = 0
    /\ todo = <<>>
    /\ direction = "up"
    /\ err = ErrNil
    /\ calls = <<>>
    /\ Output = <<>>
    /\ path = NoPath
    /\ ret = NoReturn
    /\ running = NoCallers

\* (Mutant: the lookup of a version the map lacks stores an empty Migration
\* under it.)
AfterCallStoring(migs, r) ==
    LET between == IF r.version > r.currentVersion
                   THEN (r.currentVersion + 1)..r.version
                   ELSE (r.version + 1)..(r.currentVersion - 1)
    IN  [v \in DOMAIN migs \cup between |-> IF v \in DOMAIN migs THEN migs[v] ELSE NoMigration]

\* The migration map after a call that returned r: Goto and Latest only
\* read the map (the lookup in addToTodo, the loop of Latest) and the
\* Migrations in it (the loops over todo and Parts), so it is the map before
\* the call.
AfterCall(migs, r) == migs

Returns(name, r) ==
    /\ op' = name
    /\ db' = r.db
    /\ meta' = r.meta
    /\ version' = r.version
    /\ currentVersion' = r.currentVersion
    /\ todo' = r.todo
    /\ direction' = r.direction
    /\ err' = r.err
    /\ calls' = r.calls
    /\ Output' = r.out
    /\ ret' = NoReturn
    /\ migrations' = AfterCall(migrations, r)
    /\ UNCHANGED <<path, running>>

\* Version returns or panics with r; the database and the ledger stay as
\* they are and nothing of an earlier call is left.  A panic ends the program.
VersionReturns(name, r) ==
    /\ op' = IF r.panic THEN "panic" ELSE name
    /\ ret' = r
    /\ version' = 0
    /\ currentVersion' = 0
    /\ todo' = <<>>
    /\ direction' = "up"
    /\ err' = ErrNil
    /\ calls' = <<>>
    /\ Output' = <<>>
    /\ UNCHANGED <<migrations, db, meta, path, running>>

\* Goto and Latest begin with a call of Version, and panic when it does.
GotoCall ==
    /\ op # "panic"
    /\ \/ VersionReturns("Goto", VersionRead(meta, TRUE))
       \/ \E v \in Targets : \E env \in Envs(migrations) :
            Returns("Goto", Goto(migrations, db, meta, v, env))

LatestCall ==
    /\ op # "panic"
    /\ \/ VersionReturns("Latest", VersionRead(meta, TRUE))
       \/ \E env \in Envs(migrations) :
            Returns("Latest", Latest(migrations, db, meta, env))

VersionCall ==
    /\ op # "panic"
    /\ \E fails \in BOOLEAN : VersionReturns("Version", VersionRead(meta, fails))

Next == GotoCall \/ LatestCall \/ VersionCall

Spec == Init /\ [][Next]_vars

\* Migration maps over any non-empty set of versions, as an Instance put
\* together without the gap check of NewInstance would hold them.
AnyInstances ==
    { [v \in S |-> Migration(v, n)] : S \in (SUBSET (1..MaxVersion)) \ {{}}, n \in 1..MaxParts }

InitAnyMap ==
    /\ migrations \in AnyInstances
    /\ db = {}
    /\ meta = NoEntries
    /\ op = "NewInstance"
    /\ version = 0
    /\ currentVersion = 0
    /\ todo = <<>>
    /\ direction = "up"
    /\ err = ErrNil
    /\ calls = <<>>
    /\ Output = <<>>
    /\ path = NoPath
    /\ ret = NoReturn
    /\ running = NoCallers

SpecAnyMap == InitAnyMap /\ [][Next]_vars

\* The calls in which the ledger can be read and neither Commit nor the
\* ledger write fails; Begin and Exec may fail.
SoundEnvs(migs) == { env \in Envs(migs) : ~env.commit /\ ~env.set }

GotoSound ==
    \E v \in Targets : \E env \in SoundEnvs(migrations) :
        Returns("Goto", Goto(migrations, db, meta, v, env))

LatestSound ==
    \E env \in SoundEnvs(migrations) :
        Returns("Latest", Latest(migrations, db, meta, env))

NextSound == GotoSound \/ LatestSound

SpecSound == Init /\ [][NextSound]_vars

----------------------------------------------------------------------------
\* Two callers of Goto and Latest on the same Instance.
\*
\* A call is taken apart at the places where it touches what the callers
\* share: the read of the version (Version), Begin, the Execs of the step
\* list, Commit, and the ledger write.  What a transaction executed takes
\* effect on the database at its Commit.

Callers == {"a", "b"}

MaxShared == 2

\* The Instances the callers share: versions 1..max of one Part each.
SharedInstances == { [v \in 1..max |-> Migration(v, 1)] : max \in 1..MaxShared }

\* The versions they ask for: every version of the largest of these maps,
\* zero, and one above.
SharedTargets == 0..(MaxShared + 1)

\* The locals of a caller: where it is in its call, the version it read,
\* the version asked for, the step list, the direction, and the bodies its
\* transaction executed.
Idle == [pc |-> "idle", currentVersion |-> 0, version |-> 0, todo |-> <<>>,
         direction |-> "up", tx |-> <<>>]

\* (Mutant: a call starts only while no other call is in progress.)
AdmittedAlone(r, p) == \A q \in DOMAIN r : q # p => r[q].pc = "idle"

\* Goto and Latest take no lock: a call starts whatever the other callers
\* are doing.
Admitted(r, p) == TRUE

InitConcurrent ==
    /\ migrations \in SharedInstances
    /\ db = {}
    /\ meta = NoEntries
    /\ op = "NewInstance"
    /\ version = 0
    /\ currentVersion = 0
    /\ todo = <<>>
    /\ direction = "up"
    /\ err = ErrNil
    /\ calls = <<>>
    /\ Output = <<>>
    /\ path = NoPath
    /\ ret = NoReturn
    /\ running = [p \in Callers |-> Idle]

\* The call of p returns e.
Done(p, name, e) ==
    /\ running' = [running EXCEPT ![p] = Idle]
    /\ op' = name
    /\ err' = e

\* Version panics in the call of p: the program ends.
Panic(p) ==
    /\ running' = [q \in Callers |-> Idle]
    /\ op' = "panic"
    /\ err' = ErrNil

\* Latest up to its call of Goto: the read of the version and the search for
\* the highest version.
LatestEnter(p) ==
    /\ running[p].pc = "idle"
    /\ Admitted(running, p)
    /\ \E fails \in BOOLEAN :
          LET read == VersionRead(meta, fails)
              latestVersion == HighestVersion(migrations, DOMAIN migrations, 0)
          IN  IF read.panic THEN Panic(p)
              ELSE IF AtLatest(latestVersion, read.value)
              THEN Done(p, "Latest", ErrNoMigrationsLatest)
              ELSE /\ running' = [running EXCEPT ![p] =
                                     [Idle EXCEPT !.pc = "goto", !.version = latestVersion]]
                   /\ UNCHANGED <<op, err>>
    /\ UNCHANGED <<migrations, db, meta, version, currentVersion, todo, direction, calls,
                   Output, path, ret>>

\* Goto up to Begin: the read of the version and the planning.
GotoEnter(p) ==
    /\ \/ running[p].pc = "idle" /\ Admitted(running, p)
       \/ running[p].pc = "goto"
    /\ \E v \in SharedTargets : \E fails \in BOOLEAN :
          /\ running[p].pc = "goto" => v = running[p].version
          /\ LET read == VersionRead(meta, fails) IN
             IF read.panic THEN Panic(p)
             ELSE LET plan == Plan(migrations, read.value, v) IN
                  IF plan.err # ErrNil THEN Done(p, "Goto", plan.err)
                  ELSE /\ running' = [running EXCEPT ![p] =
                                         [pc |-> "planned", currentVersion |-> read.value,
                                          version |-> v, todo |-> plan.todo,
                                          direction |-> plan.direction, tx |-> <<>>]]
                       /\ UNCHANGED <<op, err>>
    /\ UNCHANGED <<migrations, db, meta, version, currentVersion, todo, direction, calls,
                   Output, path, ret>>

Begin(p) ==
    /\ running[p].pc = "planned"
    /\ \E fails \in BOOLEAN :
          IF fails THEN Done(p, "Goto", ErrBegin)
          ELSE /\ running' = [running EXCEPT ![p].pc = "begun"]
               /\ UNCHANGED <<op, err>>
    /\ UNCHANGED <<migrations, db, meta, version, currentVersion, todo, direction, calls,
                   Output, path, ret>>

\* The loop over the step list inside the transaction of p.
Apply(p) ==
    /\ running[p].pc = "begun"
    /\ \E env \in SoundEnvs(migrations) :
          LET run == ApplyTodo(running[p].todo, running[p].direction,
                               running[p].currentVersion, env, 1,
                               [tx |-> {}, calls |-> <<>>, out |-> <<>>,
                                applied |-> <<>>, failed |-> <<>>, err |-> ErrNil])
          IN  IF run.err # ErrNil THEN Done(p, "Goto", run.err)
              ELSE /\ running' = [running EXCEPT ![p].pc = "applied",
                                                 ![p].tx = [k \in 1..Len(run.calls) |-> run.calls[k][2]]]
                   /\ UNCHANGED <<op, err>>
    /\ UNCHANGED <<migrations, db, meta, version, currentVersion, todo, direction, calls,
                   Output, path, ret>>

\* The database after the given bodies were executed on it in order.
RECURSIVE ExecAll(_, _)
ExecAll(database, bodies) ==
    IF bodies = <<>> THEN database ELSE ExecAll(Exec(database, Head(bodies)), Tail(bodies))

Commit(p) ==
    /\ running[p].pc = "applied"
    /\ \E fails \in BOOLEAN :
          IF fails THEN Done(p, "Goto", ErrCommit) /\ db' = db
          ELSE /\ db' = ExecAll(db, running[p].tx)
               /\ running' = [running EXCEPT ![p].pc = "committed"]
               /\ UNCHANGED <<op, err>>
    /\ UNCHANGED <<migrations, meta, version, currentVersion, todo, direction, calls,
                   Output, path, ret>>

Set(p) ==
    /\ running[p].pc = "committed"
    /\ \E fails \in BOOLEAN :
          IF fails THEN Done(p, "Goto", ErrSet) /\ meta' = meta
          ELSE Done(p, "Goto", ErrNil) /\ meta' = MetaSet(meta, VersionKey, running[p].version)
    /\ UNCHANGED <<migrations, db, version, currentVersion, todo, direction, calls,
                   Output, path, ret>>

\* One step of caller p.
CallerStep(p) ==
    /\ op # "panic"
    /\ \/ LatestEnter(p)
       \/ GotoEnter(p)
       \/ Begin(p)
       \/ Apply(p)
       \/ Commit(p)
       \/ Set(p)

NextConcurrent == \E p \in Callers : CallerStep(p)

SpecConcurrent == InitConcurrent /\ [][NextConcurrent]_vars

----------------------------------------------------------------------------
\* The constructors, each applied to what lies at the path it is given.

MaxLines == 6

\* No Instance is in use while a constructor runs.
NoInstance ==
    /\ migrations = <<>>
    /\ db = {}
    /\ meta = NoEntries
    /\ version = 0
    /\ currentVersion = 0
    /\ todo = <<>>
    /\ direction = "up"
    /\ err = ErrNil
    /\ calls = <<>>
    /\ Output = <<>>
    /\ running = NoCallers

\* The lines part files are made of: the two tags, a tag without the optional
\* space and with whitespace around it, a line of whitespace, and three
\* lines of SQL text, one of them with whitespace around it.
LineSamples ==
    { <<"--", " ", "@migrate/up">>, <<"--", " ", "@migrate/down">>,
      <<" ", "--", "@migrate/up", " ">>, <<" ">>,
      <<"A">>, <<"B">>, <<" ", "C", " ">> }

\* Part files: one that cannot be opened, and every file of up to most lines.
PartFiles(most) ==
    { [name |-> "test.sql", readable |-> FALSE, lines |-> <<>>] }
    \cup { [name |-> "test.sql", readable |-> TRUE, lines |-> l] :
             l \in UNION { [1..n -> LineSamples] : n \in 0..most } }

InitPart ==
    /\ NoInstance
    /\ op = "path"
    /\ path \in PartFiles(MaxLines)
    /\ ret = NoReturn

NewPartCall ==
    /\ op = "path"
    /\ op' = "NewPart"
    /\ ret' = NewPart(path)
    /\ UNCHANGED <<migrations, db, meta, version, currentVersion, todo, direction, err,
                   calls, Output, path, running>>

NextPart == NewPartCall

SpecPart == InitPart /\ [][NextPart]_vars

MaxSuffix == 2

MaxFiles == 2

MaxDirs == 3

\* The k-th smallest member of a set of positions.
Nth(S, k) == CHOOSE x \in S : Cardinality({y \in S : y < x}) = k - 1

\* The entries of listing at the positions in S, in the order of listing:
\* ReadDir lists a directory sorted by file name.
Listed(listing, S) == [k \in 1..Cardinality(S) |-> listing[Nth(S, k)]]

\* What a migration directory may hold, sorted by file name: two part files
\* NewPart accepts, one it rejects, a file that is not named .sql, and a
\* directory that is.
FileSamples ==
    << [ext |-> ".sql", isDir |-> FALSE,
        file |-> [name |-> "a.sql", readable |-> TRUE,
                  lines |-> << <<"--", " ", "@migrate/up">>, <<"A">>,
                               <<"--", " ", "@migrate/down">>, <<"B">> >>]],
       [ext |-> ".sql", isDir |-> FALSE,
        file |-> [name |-> "b.sql", readable |-> TRUE,
                  lines |-> << <<"--", " ", "@migrate/down">>, <<" ", "C", " ">>,
                               <<" ", "--", "@migrate/up", " ">>, <<"A">> >>]],
       [ext |-> ".sql", isDir |-> FALSE,
        file |-> [name |-> "c.sql", readable |-> TRUE,
                  lines |-> << <<"A">>, <<"B">> >>]],
       [ext |-> ".txt", isDir |-> FALSE,
        file |-> [name |-> "notes.txt", readable |-> TRUE,
                  lines |-> << <<"--", " ", "@migrate/up">>, <<"A">>,
                               <<"--", " ", "@migrate/down">>, <<"B">> >>]],
       [ext |-> ".sql", isDir |-> TRUE,
        file |-> [name |-> "sub.sql", readable |-> FALSE, lines |-> <<>>]] >>

\* The listings of up to MaxFiles entries.
FileListings ==
    { Listed(FileSamples, S) :
        S \in { T \in SUBSET (1..Len(FileSamples)) : Cardinality(T) <= MaxFiles } }

\* The characters after "version_" in the names tried.
SuffixChars == {"0", "1", "2", "-", "+", "a"}

\* Directory names: "version_" followed by up to MaxSuffix characters, a name
\* too short to hold the prefix, and one of the right length without it.
DirNames ==
    { VersionPrefix \o suffix :
        suffix \in UNION { [1..n -> SuffixChars] : n \in 0..MaxSuffix } }
    \cup { <<"v", "1">>, <<"v", "e", "r", "s", "i", "o", "n", "-", "1">> }

\* Migration directories: each name over a directory that cannot be read and
\* over every listing.
MigrationDirs ==
    { [name |-> n, readable |-> FALSE, files |-> <<>>] : n \in DirNames }
    \cup { [name |-> n, readable |-> TRUE, files |-> f] : n \in DirNames, f \in FileListings }

InitMigration ==
    /\ NoInstance
    /\ op = "path"
    /\ path \in MigrationDirs
    /\ ret = NoReturn

NewMigrationCall ==
    /\ op = "path"
    /\ op' = "NewMigration"
    /\ ret' = NewMigration(path)
    /\ UNCHANGED <<migrations, db, meta, version, currentVersion, todo, direction, err,
                   calls, Output, path, running>>

NextMigration == NewMigrationCall

SpecMigration == InitMigration /\ [][NextMigration]_vars

\* The names under a root, sorted as ReadDir sorts them: "version_" followed
\* by each of these.
RootSuffixes ==
    << <<"-", "1">>, <<"0">>, <<"0", "1">>, <<"1">>, <<"2">>, <<"3">>, <<"4">>, <<"a">> >>

\* What may lie under a name of the root: a file, or a migration directory
\* with one part, with nothing NewMigration takes as a part, or with a part
\* NewPart rejects.
EntryKinds == {"file", "good", "empty", "bad"}

RootEntry(suffix, kind) ==
    [isDir |-> kind # "file",
     dir |-> [name |-> VersionPrefix \o suffix, readable |-> TRUE,
              files |-> CASE kind = "good" -> <<FileSamples[1]>>
                          [] kind = "bad" -> <<FileSamples[3]>>
                          [] OTHER -> <<FileSamples[4]>>]]

\* The listings of up to most entries under a root.
RootListings(most) ==
    UNION { { [k \in 1..Cardinality(S) |-> RootEntry(RootSuffixes[Nth(S, k)], kinds[Nth(S, k)])] :
                kinds \in [S -> EntryKinds] } :
            S \in { T \in SUBSET (1..Len(RootSuffixes)) : Cardinality(T) <= most } }

\* Roots: calls with or without a database handle, where metadb can or
\* cannot be set up and the root can or cannot be read, over the listings of
\* at most one entry; and every listing of up to most entries where nothing
\* of this fails.
Roots(most) ==
    { [db |-> d, meta |-> m, readable |-> r, entries |-> l] :
        d \in {"nil", "open"}, m \in BOOLEAN, r \in BOOLEAN, l \in RootListings(1) }
    \cup { [db |-> "open", meta |-> TRUE, readable |-> TRUE, entries |-> l] : l \in RootListings(most) }

InitInstance ==
    /\ NoInstance
    /\ op = "path"
    /\ path \in Roots(MaxDirs)
    /\ ret = NoReturn

NewInstanceCall ==
    /\ op = "path"
    /\ op' = "NewInstance"
    /\ ret' = NewInstance(path)
    /\ UNCHANGED <<migrations, db, meta, version, currentVersion, todo, direction, err,
                   calls, Output, path, running>>

NextInstance == NewInstanceCall

SpecInstance == InitInstance /\ [][NextInstance]_vars

----------------------------------------------------------------------------
\* Reading the record of a call.

\* The Exec calls of a call, in order.
ExecCalls(c) == SelectSeq(c, LAMBDA x : x[1] = "Exec")

\* The bodies handed to Exec, in order.
ExecutedBodies(c) == [k \in 1..Len(ExecCalls(c)) |-> ExecCalls(c)[k][2]]

\* The versions of the Migrations with at least one executed body.
ExecutedVersions(c) == { ExecCalls(c)[k][2][2] : k \in 1..Len(ExecCalls(c)) }

\* Whether some Exec of the call failed.
SomeExecFailed(c) == \E k \in 1..Len(c) : c[k][1] = "Exec" /\ c[k][3] = FALSE

\* Whether the call made a collaborator call of the given kind.
Called(c, kind) == \E k \in 1..Len(c) : c[k][1] = kind

\* The highest key of a migration map.
MaxDiscovered(migs) == CHOOSE m \in DOMAIN migs : \A k \in DOMAIN migs : k <= m

\* Every part of every Migration of a map.
AllParts(migs) == UNION { { <<v, i>> : i \in DOMAIN migs[v].Parts } : v \in DOMAIN migs }

\* The bodies of the given direction of the Migrations of the given versions,
\* Migration after Migration and Part after Part in stored order.
RECURSIVE BodiesInOrder(_, _, _)
BodiesInOrder(migs, versions, dir) ==
    IF versions = <<>> THEN <<>>
    ELSE [i \in 1..Len(migs[Head(versions)].Parts) |-> <<dir, Head(versions), i>>]
         \o BodiesInOrder(migs, Tail(versions), dir)

IsCall == op \in {"Goto", "Latest"}

----------------------------------------------------------------------------
\* C1: every Goto call either succeeds and leaves Version() = t, or returns
\* an error and leaves both the database and the ledger as they were.
\* (As claimed; the ledger write failing after the commit breaks it.)
C1_GotoAllOrNothing ==
    [][op' = "Goto" =>
          \/ err' = ErrNil /\ Version(meta') = version'
          \/ err' # ErrNil /\ db' = db /\ meta' = meta]_vars

\* C2: when the Exec of any Part fails, the call returns the apply error after
\* a Rollback, without Commit or ledger write; the database and the ledger
\* are unchanged and no Part of a later Migration is executed.
C2_StatementFailureRollsBack ==
    [][(op' \in {"Goto", "Latest"} /\ SomeExecFailed(calls')) =>
          LET e == ExecCalls(calls')
              f == CHOOSE k \in 1..Len(e) : e[k][3] = FALSE /\ \A j \in 1..(k - 1) : e[j][3] = TRUE
          IN  /\ err' = ErrApply
              /\ calls'[Len(calls')] = <<"Rollback">>
              /\ ~Called(calls', "Commit")
              /\ ~Called(calls', "Set")
              /\ \A k \in f..Len(e) : e[k][2][2] = e[f][2][2]
              /\ db' = db
              /\ meta' = meta
              /\ Version(meta') = currentVersion']_vars

\* C2 witness: migrating 1 to 3, version 2's second part fails after its first
\* part succeeded; Version() is still 1 and only version 1 is in effect.
C2_Witness ==
    /\ op = "Goto" /\ currentVersion = 1 /\ version = 3 /\ err = ErrApply
    /\ calls = << <<"Begin", TRUE>>, <<"Exec", <<"up", 2, 1>>, TRUE>>,
                  <<"Exec", <<"up", 2, 2>>, FALSE>>, <<"Rollback">> >>
    /\ Version(meta) = 1
    /\ db = {<<1, 1>>, <<1, 2>>}

\* C3: a successful Goto(N) from the pristine state followed by a successful
\* Goto(0) executes the down-body of every migration 1..N and leaves the
\* database empty.  (As claimed; the code leaves migration N in effect.)
C3_RoundTrip ==
    [][( /\ op = "Goto" /\ err = ErrNil /\ currentVersion = 0
         /\ version = MaxDiscovered(migrations) /\ db = AllParts(migrations)
         /\ op' = "Goto" /\ version' = 0 /\ err' = ErrNil ) =>
          /\ ExecutedVersions(calls') = DOMAIN migrations
          /\ db' = {}]_vars

\* C4: a call that migrates up from current to t plans exactly the versions
\* current+1, ..., t in ascending order; when no Exec fails it executes the
\* up-body of each of their Parts once, in order, and a successful call leaves
\* Version() = t.
C4_UpwardPlanning ==
    (IsCall /\ version > currentVersion /\ err # ErrNoVersion) =>
        /\ direction = "up"
        /\ todo = [k \in 1..(version - currentVersion) |-> currentVersion + k]
        /\ (err \in {ErrNil, ErrCommit, ErrSet} =>
               /\ ExecutedBodies(calls) = BodiesInOrder(migrations, todo, "up")
               /\ ~SomeExecFailed(calls))
        /\ (err = ErrNil => Version(meta) = version)

\* C4 witness: a successful Goto(3) from version 1 over versions 2 and 3.
C4_Witness ==
    /\ op = "Goto" /\ currentVersion = 1 /\ version = 3 /\ err = ErrNil
    /\ todo = <<2, 3>>
    /\ Version(meta) = 3

C6_DownCrossesEveryVersion ==
    (op = "Goto" /\ 0 <= version /\ version < currentVersion /\ err = ErrNil) =>
        /\ Len(todo) = currentVersion - version
        /\ Cardinality(ExecutedVersions(calls)) = currentVersion - version

\* C7: Goto(Version()) fails with ErrNoMigrations without any collaborator
\* call (no transaction, no statement, no ledger write) and changes nothing.
C7_NoOpRequest ==
    [][(op' = "Goto" /\ version' = Version(meta)) =>
          /\ err' = ErrNoMigrationsGoto
          /\ calls' = <<>>
          /\ db' = db
          /\ meta' = meta]_vars

\* C7 witness: Goto(3) on version 3 returned the no-migrations error.
C7_Witness ==
    /\ op = "Goto" /\ version = 3 /\ currentVersion = 3 /\ Version(meta) = 3
    /\ err.type = "ErrNoMigrations"
    /\ calls = <<>>

\* C8: when Version() is at or above the highest discovered version, Latest
\* fails with its ErrNoMigrations without any collaborator call and changes
\* nothing.
C8_LatestExhaustion ==
    [][(op' = "Latest" /\ Version(meta) >= MaxDiscovered(migrations)) =>
          /\ err' = ErrNoMigrationsLatest
          /\ calls' = <<>>
          /\ db' = db
          /\ meta' = meta]_vars

\* C8 witness: Latest on version 3 of three migrations, all in effect.
C8_Witness ==
    /\ op = "Latest" /\ err = ErrNoMigrationsLatest
    /\ currentVersion = 3 /\ MaxDiscovered(migrations) = 3
    /\ db = AllParts(migrations)
    /\ calls = <<>>

\* C9: below the highest discovered version M, Latest has the outcome of
\* Goto(M) from the same state under the same collaborator behaviour, and a
\* successful Latest leaves Version() = M.
C9_LatestIsGotoMax ==
    LET M == MaxDiscovered(migrations) IN
    /\ M > Version(meta) =>
          \A env \in Envs(migrations) :
              Latest(migrations, db, meta, env) = Goto(migrations, db, meta, M, env)
    /\ (op = "Latest" /\ err = ErrNil) => (version = M /\ Version(meta) = M)

\* C9 witness: a successful Latest from the pristine state of three
\* migrations left Version() = 3.
C9_Witness ==
    /\ op = "Latest" /\ err = ErrNil /\ currentVersion = 0
    /\ MaxDiscovered(migrations) = 3 /\ Version(meta) = 3
    /\ db = AllParts(migrations)

\* C10: Goto(t) with t above the highest version or below 0 fails with
\* ErrNoVersion, executes nothing and leaves Version() unchanged.
\* (As claimed; Goto(-1) on version 0 succeeds.)
C10_NonExistentTarget ==
    (op = "Goto" /\ (version > MaxDiscovered(migrations) \/ version < 0)) =>
        /\ err = ErrNoVersion
        /\ calls = <<>>
        /\ Version(meta) = currentVersion

----------------------------------------------------------------------------
\* The versions the planning loops of Goto look up between the current
\* version and the target.
Traversed(current, target) ==
    IF target > current THEN (current + 1)..target ELSE (target + 1)..(current - 1)

\* C11: when a version the step list must traverse is absent from the
\* migration map, the call fails with ErrNoVersion during planning: no
\* collaborator call is made (no transaction, no statement, no ledger write)
\* and the database and the ledger are unchanged.
C11_MissingStep ==
    [][(op' \in {"Goto", "Latest"}
        /\ \E i \in Traversed(Version(meta), version') : i \notin DOMAIN migrations) =>
          /\ err' = ErrNoVersion
          /\ calls' = <<>>
          /\ db' = db
          /\ meta' = meta]_vars

\* C11 witness: a map holding 1 and 3 but not 2; Goto(3) from the pristine
\* state found version 1, missed version 2 and executed nothing.
C11_Witness ==
    /\ DOMAIN migrations = {1, 3}
    /\ op = "Goto" /\ version = 3 /\ currentVersion = 0
    /\ todo = <<1>>
    /\ err = ErrNoVersion
    /\ calls = <<>>
    /\ db = {} /\ meta = NoEntries

----------------------------------------------------------------------------
\* Reading a part file line by line, without the scanner's state.

\* The tag a line is, if any, once its surrounding whitespace is dropped.
TagOf(line) ==
    LET t == TrimSpace(line) IN
    IF t \in {<<"--", "@migrate/up">>, <<"--", " ", "@migrate/up">>} THEN "up"
    ELSE IF t \in {<<"--", "@migrate/down">>, <<"--", " ", "@migrate/down">>} THEN "down"
    ELSE "none"

\* A content line: neither a tag nor blank.
IsContent(line) == TagOf(line) = "none" /\ TrimSpace(line) # <<>>

\* The direction of the last tag before line k, "none" when there is none.
Governing(lines, k) ==
    LET tags == { j \in 1..(k - 1) : TagOf(lines[j]) # "none" } IN
    IF tags = {} THEN "none"
    ELSE TagOf(lines[CHOOSE j \in tags : \A i \in tags : i <= j])

\* The trimmed content lines from line k on that stand under a tag of the
\* direction, concatenated in order without separator.
RECURSIVE ContentUnder(_, _, _)
ContentUnder(lines, k, dir) ==
    IF k > Len(lines) THEN <<>>
    ELSE (IF IsContent(lines[k]) /\ Governing(lines, k) = dir THEN TrimSpace(lines[k]) ELSE <<>>)
         \o ContentUnder(lines, k + 1, dir)

\* A content line before any tag, or no tag at all.
MissingMarker(lines) ==
    \/ \E k \in 1..Len(lines) : IsContent(lines[k]) /\ Governing(lines, k) = "none"
    \/ \A k \in 1..Len(lines) : TagOf(lines[k]) = "none"

ParsedPart == op = "NewPart" /\ path.readable

\* C15: a returned Part's up-body is the concatenation, in order and without
\* separator, of the trimmed content lines standing under an up tag, and its
\* down-body that of those under a down tag, however often the tags repeat;
\* "-- @migrate/up, A, B, -- @migrate/down, C" gives "AB" and "C" (here with
\* whitespace around the C, which is trimmed).
C15_MarkerAccumulation ==
    ParsedPart =>
        /\ (ret.err = ErrNil =>
               /\ ret.part.Up = ContentUnder(path.lines, 1, "up")
               /\ ret.part.Down = ContentUnder(path.lines, 1, "down"))
        /\ (path.lines = << <<"--", " ", "@migrate/up">>, <<"A">>, <<"B">>,
                            <<"--", " ", "@migrate/down">>, <<" ", "C", " ">> >> =>
               /\ ret.err = ErrNil
               /\ ret.part.Up = <<"A", "B">>
               /\ ret.part.Down = <<"C">>)

\* C15 witness: up, A, down, C, up, B: the second up tag adds B to the
\* up-body that already holds A.
C15_Witness ==
    /\ ParsedPart
    /\ path.lines = << <<"--", " ", "@migrate/up">>, <<"A">>, <<"--", " ", "@migrate/down">>,
                       <<" ", "C", " ">>, <<" ", "--", "@migrate/up", " ">>, <<"B">> >>
    /\ ret.err = ErrNil
    /\ ret.part.Up = <<"A", "B">>
    /\ ret.part.Down = <<"C">>

\* C16: NewPart on a file it can read fails with the missing-marker error
\* exactly when a content line comes before any tag or the file has no tag
\* at all (an empty or all-blank file included).
C16_MissingMarker ==
    ParsedPart => (ret.err = ErrNoMarker <=> MissingMarker(path.lines))

\* C16 witness: a file of blank lines only fails with the missing-marker
\* error.
C16_Witness ==
    /\ ParsedPart
    /\ path.lines = << <<" ">>, <<" ">> >>
    /\ ret.err = ErrNoMarker

HasTag(lines, dir) == \E k \in 1..Len(lines) : TagOf(lines[k]) = dir

----------------------------------------------------------------------------
\* Reading the outcome of NewInstance and NewMigration.

\* NewInstance has run and got as far as the entries of the root.
ListedRoot == op = "NewInstance" /\ path.db = "open" /\ path.meta /\ path.readable

\* The migrations of the subdirectories of the root.
Discovered == ReadMigrations(path.entries, 1, NoMigrations)

\* The first version, in ascending order, that does not continue the
\* sequence 1, 2, ... and the number of versions below it.
FirstBreak(V) == CHOOSE b \in V :
    /\ b # Cardinality({w \in V : w < b}) + 1
    /\ \A v \in V : v < b => v = Cardinality({w \in V : w < v}) + 1

Gapless(V) == \E max \in 1..Cardinality(V) : V = 1..max

\* C12: whenever NewInstance succeeds, the keys of its migration map are
\* exactly 1..max for some max >= 1, and each key is the Version of the
\* Migration it maps to.
C12_InstanceInvariant ==
    (op = "NewInstance" /\ ret.err = ErrNil) =>
        /\ \E max \in 1..(MaxDirs + 1) : DOMAIN ret.migrations = 1..max
        /\ 0 \notin DOMAIN ret.migrations
        /\ \A key \in DOMAIN ret.migrations : ret.migrations[key].Version = key

\* C12 witness: version_1, version_2 and version_3 make an Instance of three
\* migrations.
C12_Witness ==
    /\ ListedRoot
    /\ Len(path.entries) = 3
    /\ ret.err = ErrNil
    /\ DOMAIN ret.migrations = 1..3
    /\ ret.migrations[3].Name = VersionPrefix \o <<"3">>

\* C13: when the versions discovered are not 1..max, NewInstance fails with
\* the gap error that names the last version in sequence and the first one,
\* in ascending order, that breaks the sequence.
C13_GapDetection ==
    (ListedRoot /\ Discovered.err = ErrNil /\ DOMAIN Discovered.migrations # {}
     /\ ~Gapless(DOMAIN Discovered.migrations)) =>
        LET V == DOMAIN Discovered.migrations
            b == FirstBreak(V)
        IN  /\ ret.err.type = "error"
            /\ ret.err.msg = "NewInstance: found gap between migration version"
            /\ ret.err.to = b
            /\ ret.err.from = Cardinality({w \in V : w < b})
            /\ (\A v \in V : v >= b) => ret.err.from = 0
            /\ ret.migrations = NoMigrations

\* C13 witness: version_1, version_2 and version_4 report a gap between 2
\* and 4.
C13_Witness ==
    /\ ListedRoot
    /\ DOMAIN Discovered.migrations = {1, 2, 4}
    /\ ret.err = ErrGap(2, 4)

\* C14: NewMigration on a directory named version_0 fails with the error for
\* the disallowed version 0 whatever the directory holds, readable or not.
C14_ZeroReservation ==
    (op = "NewMigration" /\ path.name = VersionPrefix \o <<"0">>) =>
        /\ ret.err = ErrZero
        /\ ret.migration = NoMigration

\* C14 witness: a version_0 that cannot be read is rejected for its version.
C14_Witness ==
    /\ op = "NewMigration"
    /\ path.name = VersionPrefix \o <<"0">>
    /\ ~path.readable
    /\ ret.err = ErrZero

\* The part files among the entries of the directory.
PartFilesIn(files) == SelectSeq(files, IsPartFile)

\* C19: every Migration NewMigration returns has Version >= 1 and at least
\* one Part, and a directory without a part file fails with the no-parts
\* error.  (version_-1 with a part file yields a Migration of Version -1.)
C19_MigrationInvariant ==
    /\ (op = "NewMigration" /\ ret.err = ErrNil) =>
          /\ ret.migration.Version >= 1
          /\ Len(ret.migration.Parts) >= 1
    /\ (op = "NewMigration" /\ ParseName(path.name).err = ErrNil
        /\ ParseName(path.name).version # 0
        /\ path.readable /\ PartFilesIn(path.files) = <<>>) =>
          ret.err = ErrNoParts

----------------------------------------------------------------------------
\* C20: Version returns 0 when the ledger has no entry under the version
\* key and otherwise the integer the last successful Goto persisted there
\* (only a Goto that succeeds changes the entry, to its target); when the
\* read fails in any other way it panics and returns no value.
C20_VersionRead ==
    [][/\ (op' = "Version" /\ VersionKey \notin DOMAIN meta) =>
             (ret'.read = ErrNoEntry /\ ret'.value = 0)
       /\ (op' = "Version" /\ VersionKey \in DOMAIN meta) =>
             (ret'.read = ErrNil /\ ret'.value = meta[VersionKey])
       /\ (op' \in {"Version", "panic"}) => (meta' = meta /\ db' = db)
       /\ (meta' # meta) =>
             /\ op' \in {"Goto", "Latest"}
             /\ err' = ErrNil
             /\ meta' = MetaSet(meta, VersionKey, version')
       /\ (ret' # NoReturn /\ ret'.read \notin {ErrNil, ErrNoEntry}) =>
             (op' = "panic" /\ ret'.panic /\ "value" \notin DOMAIN ret')
       /\ (op' = "panic") => ret'.read \notin {ErrNil, ErrNoEntry}]_vars

\* C20 witness: Version returns the 2 a Goto persisted.
C20_Witness ==
    /\ op = "Version"
    /\ VersionKey \in DOMAIN meta
    /\ meta[VersionKey] = 2
    /\ ret.value = 2

----------------------------------------------------------------------------
\* Reading the end of a call.

\* The last collaborator call of a call.
LastCall(c) == c[Len(c)]

\* Whether the call made a Commit that failed, or ended in a failed ledger
\* write.
CommitFailed(c) == \E k \in 1..Len(c) : c[k] = <<"Commit", FALSE>>

SetFailed(c) == c # <<>> /\ LastCall(c)[1] = "Set" /\ LastCall(c)[4] = FALSE

\* C21: when every Part of the step list executed and Commit fails, the
\* call returns the commit error, makes no ledger write, and Version() is
\* what it was before the call.
C21_CommitFailure ==
    [][(op' \in {"Goto", "Latest"} /\ CommitFailed(calls')) =>
          /\ ~SomeExecFailed(calls')
          /\ ExecutedBodies(calls') =
                BodiesInOrder(migrations, todo', direction')
          /\ err' = ErrCommit
          /\ ~Called(calls', "Set")
          /\ meta' = meta
          /\ Version(meta') = currentVersion']_vars

\* C21 witness: Goto(2) from version 0 executed all parts of versions 1 and
\* 2 and failed to commit; Version() is still 0.
C21_Witness ==
    /\ op = "Goto"
    /\ err = ErrCommit
    /\ todo = <<1, 2>>
    /\ Len(ExecCalls(calls)) >= 2
    /\ Version(meta) = 0

----------------------------------------------------------------------------
\* The database as the set of versions in effect.

\* The versions with a Part whose up-body is in effect.
InEffect(database) == { p[1] : p \in database }

\* C23: when no Commit and no ledger write fails, between calls the versions
\* in effect are exactly 1..Version().  (Goto(1) then Goto(0) leaves version
\* 1 in effect at Version() = 0: the down loop skips the current version.)
C23_DatabaseMatchesLedger ==
    InEffect(db) = 1..Version(meta)

\* C24: after any calls of Goto and Latest, 0 <= Version() <= M.  (Goto(-1)
\* from version 0 leaves Version() = -1.)
C24_VersionRange ==
    /\ 0 <= Version(meta)
    /\ Version(meta) <= MaxDiscovered(migrations)

\* C29: in calls that succeed one after another, an up-body is executed only
\* when it is not in effect and a down-body only when its up-body is in
\* effect.  (Goto(1), Goto(0), Goto(1) executes the up-bodies of version 1
\* twice and no down-body in between.)
C29_NoDoubleApplication ==
    [][(op' \in {"Goto", "Latest"} /\ err' = ErrNil) =>
          \A k \in 1..Len(ExecCalls(calls')) :
              LET body == ExecCalls(calls')[k][2]
                  before == ExecAll(db, SubSeq(ExecutedBodies(calls'), 1, k - 1))
              IN  IF body[1] = "up"
                  THEN <<body[2], body[3]>> \notin before
                  ELSE <<body[2], body[3]>> \in before]_vars

\* C30: in every reachable state a Latest call in which nothing fails either
\* reports that the database is at the latest version or succeeds, and
\* Version() = M afterwards.  (At Version() = -1, after Goto(-1), Latest
\* fails on the missing version 0, every time.)
C30_LatestRecovers ==
    (op # "panic") =>
        LET r == Latest(migrations, db, meta, NoFault) IN
        /\ r.err \in {ErrNil, ErrNoMigrationsLatest}
        /\ Version(r.meta) = MaxDiscovered(migrations)

----------------------------------------------------------------------------
\* The collaborator calls of a call, by kind and by Migration.

\* How many calls of the given kind the call made.
Count(c, kind) == Len(SelectSeq(c, LAMBDA x : x[1] = kind))

\* The Exec calls of the call on bodies of the given version.
ExecCallsOf(c, v) == SelectSeq(ExecCalls(c), LAMBDA x : x[2][2] = v)

\* The position of the first Exec call that failed, among the Exec calls.
FirstFailed(c) ==
    CHOOSE k \in 1..Len(ExecCalls(c)) :
        /\ ExecCalls(c)[k][3] = FALSE
        /\ \A j \in 1..(k - 1) : ExecCalls(c)[j][3] = TRUE

\* Whether the call returned from planning: a missing version or nothing to
\* apply.
EndedInPlanning == err \in {ErrNoVersion, ErrNoMigrationsGoto, ErrNoMigrationsLatest}

\* C25: when a Part fails, every Part of its Migration is still executed in
\* stored order; after the last of them the transaction is rolled back, no
\* Part of a later Migration is executed, and the call returns the apply
\* error whichever Parts failed.
C25_FailureInsideStepList ==
    (IsCall /\ SomeExecFailed(calls)) =>
        LET e == ExecCalls(calls)
            v == e[FirstFailed(calls)][2][2]
            n == Len(migrations[v].Parts)
        IN  /\ [k \in 1..Len(ExecCallsOf(calls, v)) |-> ExecCallsOf(calls, v)[k][2]]
                  = BodiesInOrder(migrations, <<v>>, direction)
            /\ \A k \in 1..Len(e) : k > Len(e) - n <=> e[k][2][2] = v
            /\ Count(calls, "Rollback") = 1
            /\ LastCall(calls) = <<"Rollback">>
            /\ calls[Len(calls) - 1][1] = "Exec"
            /\ \A k \in 1..Len(todo) : todo[k] = v =>
                  \A j \in (k + 1)..Len(todo) : ExecCallsOf(calls, todo[j]) = <<>>
            /\ err = ErrApply

\* C25 witness: going from 0 to 2 with two Parts each, the first Part of
\* version 1 fails, the second is executed, and version 2 is not touched.
C25_Witness ==
    /\ op = "Goto"
    /\ todo = <<1, 2>>
    /\ calls = << <<"Begin", TRUE>>, <<"Exec", <<"up", 1, 1>>, FALSE>>,
                  <<"Exec", <<"up", 1, 2>>, TRUE>>, <<"Rollback">> >>
    /\ err = ErrApply

\* C26 as claimed: a call that gets past planning begins exactly one
\* transaction, executes every Part inside it and ends it by exactly one
\* Commit or one Rollback; a call that returns from planning begins none.
\* (When Begin fails there is no transaction, and neither Commit nor
\* Rollback.)
C26_OneTransaction ==
    IsCall =>
        IF EndedInPlanning THEN calls = <<>>
        ELSE /\ Count(calls, "Begin") = 1
             /\ calls[1] = <<"Begin", TRUE>>
             /\ Count(calls, "Commit") + Count(calls, "Rollback") = 1
             /\ \A k \in 1..Len(calls) : calls[k][1] = "Exec" =>
                   /\ k > 1
                   /\ \E j \in (k + 1)..Len(calls) : calls[j][1] \in {"Commit", "Rollback"}

\* C26 amended: a call that gets past planning calls Begin exactly once;
\* when Begin fails the call returns the begin error and makes no other
\* call; otherwise every Part is executed inside that transaction and the
\* transaction is ended by exactly one Commit or one Rollback.
C26_OneTransactionIfBegun ==
    IsCall =>
        IF EndedInPlanning THEN calls = <<>>
        ELSE /\ Count(calls, "Begin") = 1
             /\ calls[1][1] = "Begin"
             /\ IF calls[1][2] = FALSE
                THEN calls = << <<"Begin", FALSE>> >> /\ err = ErrBegin
                ELSE /\ Count(calls, "Commit") + Count(calls, "Rollback") = 1
                     /\ \A k \in 1..Len(calls) : calls[k][1] = "Exec" =>
                           /\ k > 1
                           /\ \E j \in (k + 1)..Len(calls) :
                                 calls[j][1] \in {"Commit", "Rollback"}

\* C26 witness: a call whose transaction was rolled back after Parts were
\* executed in it.
C26_Witness ==
    /\ op = "Goto"
    /\ calls # <<>>
    /\ calls[1] = <<"Begin", TRUE>>
    /\ Len(ExecCalls(calls)) >= 2
    /\ LastCall(calls) = <<"Rollback">>
    /\ Count(calls, "Commit") = 0

\* C27: a call writes the ledger at most once, and only after every Part of
\* every Migration of the step list was executed without failure and Commit
\* succeeded; the value written is the requested version.
C27_LedgerWriteOrdering ==
    IsCall =>
        /\ Count(calls, "Set") <= 1
        /\ Called(calls, "Set") =>
              /\ LastCall(calls)[1] = "Set"
              /\ LastCall(calls)[2] = VersionKey
              /\ LastCall(calls)[3] = version
              /\ calls[Len(calls) - 1] = <<"Commit", TRUE>>
              /\ ~SomeExecFailed(calls)
              /\ ExecutedBodies(calls) = BodiesInOrder(migrations, todo, direction)
        /\ (err \notin {ErrNil, ErrSet}) => ~Called(calls, "Set")
        /\ (err = ErrNil) => (Called(calls, "Set") /\ meta[VersionKey] = version)

\* C27 witness: Goto(2) from version 0 wrote 2 after the Commit.
C27_Witness ==
    /\ op = "Goto"
    /\ err = ErrNil
    /\ todo = <<1, 2>>
    /\ calls[Len(calls) - 1] = <<"Commit", TRUE>>
    /\ LastCall(calls) = <<"Set", VersionKey, 2, TRUE>>

\* C28: going down, the down-bodies of the Parts of a Migration are executed
\* in stored order, first Part first.
C28_DownPartOrder ==
    (IsCall /\ direction = "down") =>
        LET e == ExecCalls(calls) IN
        \A k \in 1..Len(e) :
            /\ e[k][2][1] = "down"
            /\ e[k][2][3] = 1 + Cardinality({ j \in 1..(k - 1) : e[j][2][2] = e[k][2][2] })

\* C28 witness: going from 3 to 1, the first Part of version 2 is undone
\* before its second Part.
C28_Witness ==
    /\ op = "Goto"
    /\ direction = "down"
    /\ ExecutedBodies(calls) = << <<"down", 2, 1>>, <<"down", 2, 2>> >>
    /\ err = ErrNil

----------------------------------------------------------------------------
\* The lines written to Output.

\* The lines written at the start of each Migration of the step list.
BoundaryLines(out) == SelectSeq(out, LAMBDA x : x[1] = "Beginning")

\* The distance between two versions.
Distance(a, b) == IF a > b THEN a - b ELSE b - a

\* C31: the boundary lines of a successful call each name the version
\* before and the version after one step, so the two numbers differ by
\* exactly 1, the first line starts at the current version and each later
\* line starts where the line before it ended; a jump over k > 1 versions is
\* announced with k.  (Going down from 3 to 0 the code writes '3 to 2' and
\* then '4 to 1': it adds the position in the step list to the current
\* version in both directions.  How many lines there are is the matter of
\* C6 and C10.)
C31_BoundaryNarration ==
    (IsCall /\ err = ErrNil) =>
        LET lines == BoundaryLines(Output)
            k == Distance(currentVersion, version)
        IN  /\ \A i \in 1..Len(lines) :
                  /\ Distance(lines[i][3], lines[i][4]) = 1
                  /\ lines[i][3] = IF i = 1 THEN currentVersion ELSE lines[i - 1][4]
            /\ (k > 1) <=> (Output # <<>> /\ Output[1] = <<"Preparing", k>>)

----------------------------------------------------------------------------
\* C32: the Instance never holds a caller back: a caller can start a call
\* and take the next step of its call whatever the other caller is doing,
\* and a call in progress carries the plan made from the version it read,
\* whatever has been committed and written since.  So two callers can read
\* the same version and both execute and commit the same up-body.
C32_NoMutualExclusion ==
    (op # "panic") =>
        \A p \in Callers :
            /\ ENABLED CallerStep(p)
            /\ running[p].pc = "idle" => ENABLED GotoEnter(p)
            /\ running[p].pc \in {"planned", "begun", "applied", "committed"} =>
                  running[p].todo =
                      Plan(migrations, running[p].currentVersion, running[p].version).todo

\* C32 witness: both callers read version 0, and both executed and
\* committed the up-body of version 1.
C32_Witness ==
    /\ running # NoCallers
    /\ \A p \in Callers :
          /\ running[p].pc = "committed"
          /\ running[p].currentVersion = 0
          /\ running[p].tx = << <<"up", 1, 1>> >>
    /\ db = {<<1, 1>>}
    /\ Version(meta) = 0

----------------------------------------------------------------------------
\* The subdirectories of a root.

\* The entries of the root that are directories, in the order listed.
Subdirectories(entries) == SelectSeq(entries, LAMBDA e : e.isDir)

\* The positions of the subdirectories NewMigration rejects.
Rejected(dirs) == { k \in 1..Len(dirs) : NewMigration(dirs[k].dir).err # ErrNil }

\* C33: NewInstance rejects a nil database handle whatever the ledger and
\* the root are like; it ignores the entries of the root that are not
\* directories; the first subdirectory NewMigration rejects ends it with
\* that error; and a root without a Migration fails with the error that no
\* migrations were found.
C33_NewInstancePreconditions ==
    (op = "NewInstance") =>
        /\ path.db = "nil" => (ret.err = ErrNilDB /\ ret.migrations = NoMigrations)
        /\ ListedRoot =>
              LET dirs == Subdirectories(path.entries) IN
              /\ ret = NewInstance([path EXCEPT !.entries = dirs])
              /\ Rejected(dirs) # {} =>
                    \E k \in Rejected(dirs) :
                        /\ \A j \in Rejected(dirs) : k <= j
                        /\ ret.err = NewMigration(dirs[k].dir).err
              /\ dirs = <<>> => ret.err = ErrNoneFound

\* C33 witness: a file, then version_0, then version_a: the file is passed
\* over and the error is that of version_0, not the syntax error of
\* version_a.
C33_Witness ==
    /\ ListedRoot
    /\ Len(path.entries) = 3
    /\ ~path.entries[1].isDir
    /\ path.entries[2].isDir /\ path.entries[2].dir.name = VersionPrefix \o <<"0">>
    /\ path.entries[3].isDir /\ path.entries[3].dir.name = VersionPrefix \o <<"a">>
    /\ ret.err = ErrZero

\* C34: whenever NewInstance succeeds, its map holds as many Migrations as
\* the root has subdirectories.  (version_01 and version_1 both construct
\* with Version 1; the second takes the place of the first in the map and
\* NewInstance succeeds with one Migration.)
C34_NoneDropped ==
    (op = "NewInstance" /\ ret.err = ErrNil) =>
        Cardinality(DOMAIN ret.migrations) = Len(Subdirectories(path.entries))

----------------------------------------------------------------------------
\* C35: no call of Goto or Latest, whether it succeeds or fails, changes the
\* migration map or a Migration in it; of what outlasts the call only the
\* database and the ledger entry of the version can differ afterwards.
C35_Frame ==
    [][(op' \in {"Goto", "Latest"}) =>
          /\ migrations' = migrations
          /\ DOMAIN meta' \subseteq DOMAIN meta \cup {VersionKey}
          /\ \A k \in DOMAIN meta : k # VersionKey => meta'[k] = meta[k]
          /\ path' = path]_vars

\* C35 witness: a call that looked up a version the map lacks, and one
\* that changed the database and the ledger, both with the map as built.
C35_Witness ==
    /\ op = "Goto"
    /\ migrations \in Instances
    /\ \/ err = ErrNoVersion /\ version = MaxDiscovered(migrations) + 1
       \/ err = ErrNil /\ db # {} /\ Version(meta) = MaxDiscovered(migrations)

====
